---- MODULE Spec2Model ----
(***************************************************************************)
(* Model of src/src/invoice_service.py: InvoiceService, the invoice        *)
(* validation and pricing pipeline.                                        *)
(*                                                                         *)
(* Money.  The code computes in binary floating point.  The model computes *)
(* the same expressions exactly, in fixed point: an amount is an integer   *)
(* number of steps of 1/10000 currency unit, fine enough that every        *)
(* product of a whole amount with up to two percentage rates is exact.     *)
(* Rates are held in percent (0.10 is 10).  Rounding noise of the floating *)
(* point evaluation (of the order of 1e-13) is outside the model.          *)
(*                                                                         *)
(* Strings.  Identifiers that the code only compares or tests for          *)
(* emptiness are TLA+ strings.  The coupon, which the code strips, is a    *)
(* sequence of one-character strings.  Optional values (inv, coupon) are   *)
(* sequences of length 0 (None) or 1.                                      *)
(***************************************************************************)
EXTENDS Integers, Sequences, FiniteSets, TLC

VARIABLES call, pc, ret

vars == <<call, pc, ret>>

None == <<>>
Some(x) == <<x>>

\* One currency unit, in steps.
Unit == 100 * 100

\* amount * rate, the rate given in percent.
ApplyRate(amount, pct) == (amount \div 100) * pct

Max(a, b) == IF a >= b THEN a ELSE b

-----------------------------------------------------------------------------
(* Strings as character sequences; str.strip *)

Whitespace == {" ", "\t", "\n"}

RECURSIVE lstrip(_)
lstrip(s) == IF s # <<>> /\ Head(s) \in Whitespace THEN lstrip(Tail(s)) ELSE s

RECURSIVE rstrip(_)
rstrip(s) ==
    IF s # <<>> /\ s[Len(s)] \in Whitespace
    THEN rstrip(SubSeq(s, 1, Len(s) - 1))
    ELSE s

strip(s) == rstrip(lstrip(s))

\* Variant of join that keeps only the first part.
join_first(sep, parts) == IF parts = <<>> THEN "" ELSE parts[1]

\* sep.join(parts)
RECURSIVE join(_, _)
join(sep, parts) ==
    IF parts = <<>> THEN ""
    ELSE IF Len(parts) = 1 THEN parts[1]
    ELSE parts[1] \o sep \o join(sep, Tail(parts))

-----------------------------------------------------------------------------
(* InvoiceService.__init__ *)

WELCOME10 == <<"W", "E", "L", "C", "O", "M", "E", "1", "0">>
VIP20 == <<"V", "I", "P", "2", "0">>
STUDENT5 == <<"S", "T", "U", "D", "E", "N", "T", "5">>

coupon_rate == (WELCOME10 :> 10) @@ (VIP20 :> 20) @@ (STUDENT5 :> 5)

-----------------------------------------------------------------------------
(* InvoiceService._validate *)

Categories == {"book", "food", "electronics", "other"}

\* Variant of ItemProblems that accepts a quantity of zero.
ItemProblems_zero_qty(it) ==
    (IF it.sku = "" THEN <<"Item sku is missing">> ELSE <<>>)
    \o (IF it.qty < 0 THEN <<"Invalid qty for " \o it.sku>> ELSE <<>>)
    \o (IF it.unit_price < 0 THEN <<"Invalid price for " \o it.sku>> ELSE <<>>)
    \o (IF it.category \notin Categories
        THEN <<"Unknown category for " \o it.sku>> ELSE <<>>)

ItemProblems(it) ==
    (IF it.sku = "" THEN <<"Item sku is missing">> ELSE <<>>)
    \o (IF it.qty <= 0 THEN <<"Invalid qty for " \o it.sku>> ELSE <<>>)
    \o (IF it.unit_price < 0 THEN <<"Invalid price for " \o it.sku>> ELSE <<>>)
    \o (IF it.category \notin Categories
        THEN <<"Unknown category for " \o it.sku>> ELSE <<>>)

RECURSIVE ItemsProblems(_)
ItemsProblems(items) ==
    IF items = <<>> THEN <<>>
    ELSE ItemProblems(Head(items)) \o ItemsProblems(Tail(items))

validate(inv) ==
    IF inv = None THEN <<"Invoice is missing">>
    ELSE LET i == inv[1] IN
        (IF i.invoice_id = "" THEN <<"Missing invoice_id">> ELSE <<>>)
        \o (IF i.customer_id = "" THEN <<"Missing customer_id">> ELSE <<>>)
        \o (IF i.items = <<>> THEN <<"Invoice must contain items">> ELSE <<>>)
        \o ItemsProblems(i.items)

-----------------------------------------------------------------------------
(* InvoiceService._calculate_base_costs *)

RECURSIVE SumSubtotal(_)
SumSubtotal(items) ==
    IF items = <<>> THEN 0
    ELSE Head(items).unit_price * Head(items).qty + SumSubtotal(Tail(items))

RECURSIVE SumFragile(_)
SumFragile(items) ==
    IF items = <<>> THEN 0
    ELSE (IF Head(items).fragile THEN 5 * Unit * Head(items).qty ELSE 0)
         + SumFragile(Tail(items))

calculate_base_costs(items) == <<SumSubtotal(items), SumFragile(items)>>

-----------------------------------------------------------------------------
(* InvoiceService._calculate_shipping *)

rates ==
    [TH |-> <<500 * Unit, 60 * Unit>>,
     JP |-> <<4000 * Unit, 600 * Unit>>,
     US |-> <<0, 0>>,
     DEFAULT |-> <<200 * Unit, 25 * Unit>>]

\* Variant of calculate_shipping whose first US tier includes its threshold.
calculate_shipping_us_inclusive(country, subtotal) ==
    IF country = "US"
    THEN IF subtotal <= 100 * Unit THEN 15 * Unit
         ELSE IF subtotal < 300 * Unit THEN 8 * Unit ELSE 0
    ELSE LET r == IF country \in DOMAIN rates THEN rates[country]
                  ELSE rates["DEFAULT"]
         IN  IF subtotal < r[1] THEN r[2] ELSE 0

\* Variant of calculate_shipping whose table thresholds are inclusive.
calculate_shipping_table_inclusive(country, subtotal) ==
    IF country = "US"
    THEN IF subtotal < 100 * Unit THEN 15 * Unit
         ELSE IF subtotal < 300 * Unit THEN 8 * Unit ELSE 0
    ELSE LET r == IF country \in DOMAIN rates THEN rates[country]
                  ELSE rates["DEFAULT"]
         IN  IF subtotal <= r[1] THEN r[2] ELSE 0

calculate_shipping(country, subtotal) ==
    IF country = "US"
    THEN IF subtotal < 100 * Unit THEN 15 * Unit
         ELSE IF subtotal < 300 * Unit THEN 8 * Unit ELSE 0
    ELSE LET r == IF country \in DOMAIN rates THEN rates[country]
                  ELSE rates["DEFAULT"]
         IN  IF subtotal < r[1] THEN r[2] ELSE 0

-----------------------------------------------------------------------------
(* InvoiceService._calculate_discount *)

tier_rates == [gold |-> 3, platinum |-> 5]

\* Variant of calculate_discount that takes the coupon off the amount left
\* after the tier discount.
calculate_discount_compound(inv, subtotal) ==
    LET tier ==
            IF inv.membership \in DOMAIN tier_rates
            THEN ApplyRate(subtotal, tier_rates[inv.membership])
            ELSE IF subtotal > 3000 * Unit THEN 20 * Unit ELSE 0
        hasCode ==
            /\ inv.coupon # None
            /\ inv.coupon[1] # <<>>
            /\ strip(inv.coupon[1]) # <<>>
        code == strip(inv.coupon[1])
        known == code \in DOMAIN coupon_rate
    IN  <<tier + (IF hasCode /\ known
                  THEN ApplyRate(subtotal - tier, coupon_rate[code]) ELSE 0),
          IF hasCode /\ ~known THEN <<"Unknown coupon">> ELSE <<>> >>

\* Variant of calculate_discount that warns whenever no coupon rate applies,
\* also for an absent or blank coupon.
calculate_discount_warn_blank(inv, subtotal) ==
    LET tier ==
            IF inv.membership \in DOMAIN tier_rates
            THEN ApplyRate(subtotal, tier_rates[inv.membership])
            ELSE IF subtotal > 3000 * Unit THEN 20 * Unit ELSE 0
        hasCode ==
            /\ inv.coupon # None
            /\ inv.coupon[1] # <<>>
            /\ strip(inv.coupon[1]) # <<>>
        code == strip(inv.coupon[1])
        known == code \in DOMAIN coupon_rate
    IN  <<tier + (IF hasCode /\ known
                  THEN ApplyRate(subtotal, coupon_rate[code]) ELSE 0),
          IF hasCode /\ known THEN <<>> ELSE <<"Unknown coupon">> >>

\* Variant of calculate_discount whose flat discount applies below the
\* threshold instead of above it.
calculate_discount_flat_below(inv, subtotal) ==
    LET tier ==
            IF inv.membership \in DOMAIN tier_rates
            THEN ApplyRate(subtotal, tier_rates[inv.membership])
            ELSE IF subtotal < 3000 * Unit THEN 20 * Unit ELSE 0
        hasCode ==
            /\ inv.coupon # None
            /\ inv.coupon[1] # <<>>
            /\ strip(inv.coupon[1]) # <<>>
        code == strip(inv.coupon[1])
        known == code \in DOMAIN coupon_rate
    IN  <<tier + (IF hasCode /\ known
                  THEN ApplyRate(subtotal, coupon_rate[code]) ELSE 0),
          IF hasCode /\ ~known THEN <<"Unknown coupon">> ELSE <<>> >>

calculate_discount(inv, subtotal) ==
    LET tier ==
            IF inv.membership \in DOMAIN tier_rates
            THEN ApplyRate(subtotal, tier_rates[inv.membership])
            ELSE IF subtotal > 3000 * Unit THEN 20 * Unit ELSE 0
        hasCode ==
            /\ inv.coupon # None
            /\ inv.coupon[1] # <<>>
            /\ strip(inv.coupon[1]) # <<>>
        code == strip(inv.coupon[1])
        known == code \in DOMAIN coupon_rate
    IN  <<tier + (IF hasCode /\ known
                  THEN ApplyRate(subtotal, coupon_rate[code]) ELSE 0),
          IF hasCode /\ ~known THEN <<"Unknown coupon">> ELSE <<>> >>

-----------------------------------------------------------------------------
(* InvoiceService._calculate_tax *)

tax_rates == [TH |-> 7, JP |-> 10, US |-> 8]

calculate_tax(country, taxable_amount) ==
    LET rate == IF country \in DOMAIN tax_rates THEN tax_rates[country] ELSE 5
    IN  ApplyRate(taxable_amount, rate)

-----------------------------------------------------------------------------
(* InvoiceService.compute_total *)

\* Variant of taxable that taxes the amount before the discount.
taxable_gross(subtotal, discount) == subtotal

\* The argument of the tax rule.
taxable(subtotal, discount) == subtotal - discount

\* Variant of total_of without the floor and with the last subtraction
\* the wrong way round.
total_of_reversed(subtotal, shipping, fragile_fee, tax, discount) ==
    discount - (subtotal + shipping + fragile_fee + tax)

\* The clamped sum.
total_of(subtotal, shipping, fragile_fee, tax, discount) ==
    Max(0, subtotal + shipping + fragile_fee + tax - discount)

\* Variant of upgrade that also advises at exactly the threshold.
upgrade_inclusive(subtotal, membership, warnings) ==
    IF subtotal >= 10000 * Unit /\ membership \notin {"gold", "platinum"}
    THEN Append(warnings, "Consider membership upgrade")
    ELSE warnings

\* The upgrade advice, appended to the warnings of the discount rule.
upgrade(subtotal, membership, warnings) ==
    IF subtotal > 10000 * Unit /\ membership \notin {"gold", "platinum"}
    THEN Append(warnings, "Consider membership upgrade")
    ELSE warnings

\* What a call leaves behind: the exception's message or the returned value,
\* and, for compute_total, the values of its local variables.
Raised(msg) == [kind |-> "raise", message |-> msg, value |-> None, locals |-> None]
Returned(v, l) == [kind |-> "return", message |-> "", value |-> Some(v), locals |-> l]
NoRet == [kind |-> "none", message |-> "", value |-> None, locals |-> None]

compute_total(inv) ==
    LET problems == validate(inv) IN
    IF problems # <<>> THEN Raised(join("; ", problems))
    ELSE
        LET i == inv[1]
            base == calculate_base_costs(i.items)
            subtotal == base[1]
            fragile_fee == base[2]
            dw == calculate_discount(i, subtotal)
            discount == dw[1]
            shipping == calculate_shipping(i.country, subtotal)
            tax == calculate_tax(i.country, taxable(subtotal, discount))
            total == total_of(subtotal, shipping, fragile_fee, tax, discount)
            warnings == upgrade(subtotal, i.membership, dw[2])
        IN  Returned([total |-> total, warnings |-> warnings],
                     Some([subtotal |-> subtotal, fragile_fee |-> fragile_fee,
                           discount |-> discount, shipping |-> shipping,
                           tax |-> tax]))

-----------------------------------------------------------------------------
(* The inputs *)

MaxItems == 2
MaxQty == 2

Coupons ==
    {None, Some(<<>>), Some(<<" ">>), Some(<<"\t", " ">>),
     Some(VIP20), Some(<<" ">> \o VIP20 \o <<" ", "\n">>),
     Some(<<"v", "i", "p", "2", "0">>), Some(<<"F", "O", "O">>),
     Some(<<"V", "I", "P", " ", "2", "0">>),
     Some(WELCOME10), Some(STUDENT5)}

PricingCoupons ==
    {None, Some(<<>>), Some(<<" ">>), Some(VIP20),
     Some(<<" ">> \o WELCOME10 \o <<" ">>), Some(STUDENT5),
     Some(<<"F", "O", "O">>), Some(<<"v", "i", "p", "2", "0">>)}

BulkCoupons == {None, Some(VIP20), Some(<<"F", "O", "O">>)}

Countries == {"TH", "JP", "US", "th"}
Memberships == {"gold", "platinum", "none"}
Prices == {0, 100 * Unit, 1000 * Unit, 5000 * Unit}

PricingItems ==
    [sku : {"SKU1"}, category : {"book"}, unit_price : Prices,
     qty : 1..MaxQty, fragile : BOOLEAN]

Inv(id, cust, country, membership, coupon, items) ==
    [invoice_id |-> id, customer_id |-> cust, country |-> country,
     membership |-> membership, coupon |-> coupon, items |-> items]

\* Items with any combination of defects, one per invoice.
AnyItems ==
    [sku : {"", "SKU1"}, category : Categories \cup {"toy", "Book", ""},
     unit_price : {-1, 0, 100 * Unit}, qty : {-1, 0, 1}, fragile : BOOLEAN]

\* Items with defects, several per invoice.
DefectItems ==
    [sku : {"", "A"}, category : {"food", "toy"},
     unit_price : {-1, 100 * Unit}, qty : {0, 1}, fragile : {FALSE}]

RuleInvoices ==
    [invoice_id : {"2"}, customer_id : {"C2"}, country : {"TH"},
     membership : Memberships \cup {"", "Gold"}, coupon : Coupons,
     items : {<<>>}]

Thresholds == {0, 100, 200, 300, 500, 3000, 4000, 10000}
Amounts == {t * Unit + d : t \in Thresholds, d \in {-1, 0, 1, 100}} \ {-1}
RuleCountries == Countries \cup {"jp", "us", "DEFAULT", "", "FR"}

Call(op, inv, country, amount) ==
    [op |-> op, inv |-> inv, country |-> country, amount |-> amount]

\* Well-formed invoices: one item under every coupon, or several under a few.
PricingCalls(c) ==
    \/ \E co \in Countries, m \in Memberships, cp \in PricingCoupons,
           it \in PricingItems :
           c = Call("compute_total", Some(Inv("1", "C1", co, m, cp, <<it>>)), "", 0)
    \/ \E co \in Countries, m \in Memberships, cp \in BulkCoupons,
           n \in 2..MaxItems :
           \E its \in [1..n -> PricingItems] :
               c = Call("compute_total", Some(Inv("1", "C1", co, m, cp, its)), "", 0)

\* Invoices with defects, and no invoice at all, validated and priced.
DefectCalls(c) ==
    \E op \in {"compute_total", "validate"} :
        \/ c = Call(op, None, "", 0)
        \/ \E id \in {"", "3"}, cu \in {"", "C3"} :
            \/ \E it \in AnyItems :
                   c = Call(op, Some(Inv(id, cu, "TH", "none", None, <<it>>)), "", 0)
            \/ \E n \in 0..MaxItems :
                   \E its \in [1..n -> DefectItems] :
                       c = Call(op, Some(Inv(id, cu, "TH", "none", None, its)), "", 0)

\* The rules called on their own.
RuleCalls(c) ==
    \/ \E co \in RuleCountries, a \in Amounts : c = Call("shipping", None, co, a)
    \/ \E co \in RuleCountries, a \in {-Unit, 0, 100, 770 * Unit, Unit} :
           c = Call("tax", None, co, a)
    \/ \E i \in RuleInvoices,
           a \in {-100 * Unit, 0, 1000 * Unit, 3000 * Unit,
                  3000 * Unit + 100, 10000 * Unit} :
           c = Call("discount", Some(i), "", a)

-----------------------------------------------------------------------------
(* The state machine: a caller picks a call, the service answers it. *)

Init ==
    /\ PricingCalls(call) \/ DefectCalls(call) \/ RuleCalls(call)
    /\ pc = "ready"
    /\ ret = NoRet

Answer(op, r) ==
    /\ pc = "ready"
    /\ call.op = op
    /\ ret' = r
    /\ pc' = "done"
    /\ UNCHANGED call

DoValidate == Answer("validate", Returned(validate(call.inv), None))

DoComputeTotal == Answer("compute_total", compute_total(call.inv))

DoShipping ==
    Answer("shipping", Returned(calculate_shipping(call.country, call.amount), None))

DoDiscount ==
    Answer("discount", Returned(calculate_discount(call.inv[1], call.amount), None))

DoTax == Answer("tax", Returned(calculate_tax(call.country, call.amount), None))

Next == DoValidate \/ DoComputeTotal \/ DoShipping \/ DoDiscount \/ DoTax

Spec == Init /\ [][Next]_vars

-----------------------------------------------------------------------------
(* Vocabulary of the properties, stated without the operators above. *)

Range(s) == {s[k] : k \in 1..Len(s)}
Count(s, x) == Cardinality({k \in 1..Len(s) : s[k] = x})

Done(op) == pc = "done" /\ call.op = op
Priced == Done("compute_total") /\ ret.kind = "return"

Floor0(x) == IF x < 0 THEN 0 ELSE x

RECURSIVE ExpSubtotal(_, _)
ExpSubtotal(items, n) ==
    IF n = 0 THEN 0
    ELSE ExpSubtotal(items, n - 1) + items[n].qty * items[n].unit_price

RECURSIVE ExpFragile(_, _)
ExpFragile(items, n) ==
    IF n = 0 THEN 0
    ELSE ExpFragile(items, n - 1)
         + (IF items[n].fragile THEN items[n].qty * 5 * Unit ELSE 0)

ExpShipping(country, s) ==
    CASE country = "TH" -> IF s < 500 * Unit THEN 60 * Unit ELSE 0
      [] country = "JP" -> IF s < 4000 * Unit THEN 600 * Unit ELSE 0
      [] country = "US" -> IF s < 100 * Unit THEN 15 * Unit
                           ELSE IF s < 300 * Unit THEN 8 * Unit ELSE 0
      [] OTHER -> IF s < 200 * Unit THEN 25 * Unit ELSE 0

ExpTaxPct(country) ==
    CASE country = "TH" -> 7
      [] country = "JP" -> 10
      [] country = "US" -> 8
      [] OTHER -> 5

\* The coupon without its surrounding whitespace; <<>> for an absent one.
Trimmed(coupon) ==
    IF coupon = None THEN <<>>
    ELSE LET s == coupon[1]
             solid == {k \in 1..Len(s) : s[k] \notin Whitespace}
         IN  IF solid = {} THEN <<>>
             ELSE SubSeq(s, CHOOSE k \in solid : \A j \in solid : k <= j,
                            CHOOSE k \in solid : \A j \in solid : k >= j)

ExpCouponPct(coupon) ==
    LET c == Trimmed(coupon) IN
    CASE c = <<"W", "E", "L", "C", "O", "M", "E", "1", "0">> -> 10
      [] c = <<"V", "I", "P", "2", "0">> -> 20
      [] c = <<"S", "T", "U", "D", "E", "N", "T", "5">> -> 5
      [] OTHER -> 0

UnknownCode(coupon) == Trimmed(coupon) # <<>> /\ ExpCouponPct(coupon) = 0

ExpTier(membership, s) ==
    CASE membership = "gold" -> (s \div 100) * 3
      [] membership = "platinum" -> (s \div 100) * 5
      [] OTHER -> IF s > 3000 * Unit THEN 20 * Unit ELSE 0

WellFormedItem(it) ==
    /\ it.sku # ""
    /\ it.qty > 0
    /\ it.unit_price >= 0
    /\ it.category \in {"book", "food", "electronics", "other"}

WellFormed(inv) ==
    /\ inv # None
    /\ inv[1].invoice_id # ""
    /\ inv[1].customer_id # ""
    /\ inv[1].items # <<>>
    /\ \A k \in 1..Len(inv[1].items) : WellFormedItem(inv[1].items[k])

RECURSIVE Semicolons(_, _)
Semicolons(ps, n) ==
    IF n = 0 THEN ""
    ELSE IF n = 1 THEN ps[1]
    ELSE Semicolons(ps, n - 1) \o "; " \o ps[n]

Book(price, qty) ==
    [sku |-> "SKU1", category |-> "book", unit_price |-> price * Unit,
     qty |-> qty, fragile |-> FALSE]

-----------------------------------------------------------------------------
(* C1 *)

\* C1: compute_total raises exactly when validate reports a problem; it then
\* returns nothing, and the message is every problem, in validate's order,
\* joined with "; ".  With no problem it returns a (total, warnings) pair.
C1_FailsExactlyOnProblems ==
    Done("compute_total") =>
        LET problems == validate(call.inv) IN
        /\ (ret.kind = "raise") <=> (problems # <<>>)
        /\ (ret.kind = "return") <=> (problems = <<>>)
        /\ ret.kind = "raise" =>
              /\ ret.value = None
              /\ ret.locals = None
              /\ ret.message = Semicolons(problems, Len(problems))
        /\ ret.kind = "return" =>
              /\ ret.value # None
              /\ DOMAIN ret.value[1] = {"total", "warnings"}

\* A refused invoice with several problems, on the invoice and on two items.
C1_Witness ==
    /\ Done("compute_total")
    /\ ret.kind = "raise"
    /\ call.inv # None
    /\ Len(call.inv[1].items) = 2
    /\ call.inv[1].invoice_id = ""
    /\ Len(validate(call.inv)) >= 4
    /\ ret.message =
         "Missing invoice_id; Invalid qty for A; Unknown category for A; Item sku is missing; Invalid price for "

-----------------------------------------------------------------------------
(* C2 *)

\* C2: validate returns no problem exactly for a present invoice with
\* non-empty ids, at least one item, and every item with a sku, qty > 0,
\* unit_price >= 0 and a known category; an invoice without items yields
\* "Invoice must contain items".
C2_ValidateIffWellFormed ==
    Done("validate") =>
        /\ ret.kind = "return"
        /\ (ret.value[1] = <<>>) <=> WellFormed(call.inv)
        /\ (call.inv # None /\ call.inv[1].items = <<>>)
              => "Invoice must contain items" \in Range(ret.value[1])

\* An invoice whose only defect is the quantity 0 of its second item.
C2_Witness ==
    /\ Done("validate")
    /\ call.inv # None
    /\ call.inv[1].invoice_id # ""
    /\ call.inv[1].customer_id # ""
    /\ Len(call.inv[1].items) = 2
    /\ WellFormedItem(call.inv[1].items[1])
    /\ call.inv[1].items[2].qty = 0
    /\ ret.value[1] = <<"Invalid qty for A">>

-----------------------------------------------------------------------------
(* C3 *)

\* C3: for a valid invoice, total = max(0, subtotal + shipping + fragile_fee
\* + tax - discount), with subtotal the sum of unit_price*qty, fragile_fee
\* 5*qty over the fragile items, shipping taken from the raw subtotal, and
\* tax the country rate (TH 7, JP 10, US 8, other 5 percent) of subtotal
\* minus discount.  TH, gold, VIP20, one item 1000 x 1: discount 230,
\* shipping 0, tax 53.9, total 823.9.
C3_TotalFormula ==
    Priced =>
        LET i == call.inv[1]
            l == ret.locals[1]
            sub == ExpSubtotal(i.items, Len(i.items))
            frag == ExpFragile(i.items, Len(i.items))
            ship == ExpShipping(i.country, sub)
            tax == ((sub - l.discount) \div 100) * ExpTaxPct(i.country)
        IN  /\ l.subtotal = sub
            /\ l.fragile_fee = frag
            /\ l.shipping = ship
            /\ l.tax = tax
            /\ ret.value[1].total = Floor0(sub + ship + frag + tax - l.discount)
            /\ (/\ i.country = "TH"
                /\ i.membership = "gold"
                /\ i.coupon = Some(<<"V", "I", "P", "2", "0">>)
                /\ i.items = <<Book(1000, 1)>>)
               => /\ l.discount = 230 * Unit
                  /\ l.shipping = 0
                  /\ 10 * l.tax = 539 * Unit
                  /\ 10 * ret.value[1].total = 8239 * Unit

\* The TH gold VIP20 invoice has been priced at 823.9.
C3_Witness ==
    /\ Priced
    /\ call.inv[1].country = "TH"
    /\ call.inv[1].membership = "gold"
    /\ call.inv[1].coupon = Some(<<"V", "I", "P", "2", "0">>)
    /\ call.inv[1].items = <<Book(1000, 1)>>
    /\ ret.locals[1].discount > 0
    /\ ret.locals[1].tax < 70 * Unit
    /\ 10 * ret.value[1].total = 8239 * Unit

-----------------------------------------------------------------------------
(* C4 *)

USScenario ==
    /\ Done("compute_total")
    /\ call.inv = Some(Inv("1", "C1", "US", "none", None, <<Book(100, 1)>>))

-----------------------------------------------------------------------------
(* C5 *)

-----------------------------------------------------------------------------
(* C6 *)

\* C6: the discount is tier + coupon: tier is 3% of subtotal for gold, 5% for
\* platinum, otherwise 20 if subtotal > 3000, else 0 (never both a rate and
\* the flat 20); coupon is subtotal * rate of the original subtotal when the
\* trimmed code is WELCOME10 (0.10), VIP20 (0.20) or STUDENT5 (0.05), else 0.
C6_DiscountIsTierPlusCoupon ==
    Done("discount") =>
        LET i == call.inv[1]
            s == call.amount
        IN  ret.value[1][1]
              = ExpTier(i.membership, s) + (s \div 100) * ExpCouponPct(i.coupon)

\* A platinum member above 3000 with a padded VIP20: 5% + 20%, no flat 20.
C6_Witness ==
    /\ Done("discount")
    /\ call.inv[1].membership = "platinum"
    /\ call.amount = 10000 * Unit
    /\ call.inv[1].coupon # Some(<<"V", "I", "P", "2", "0">>)
    /\ Trimmed(call.inv[1].coupon) = <<"V", "I", "P", "2", "0">>
    /\ ret.value[1][1] = 2500 * Unit

-----------------------------------------------------------------------------
(* C7 *)

\* C7: for a valid invoice, "Unknown coupon" is among the warnings exactly
\* when the trimmed coupon is non-empty and no key of the coupon table, and
\* then once; an absent, empty or blank coupon gives no warning and no coupon
\* discount; an unknown code leaves the discount at the tier discount and the
\* total is still returned.
C7_UnknownCoupon ==
    (Done("compute_total") /\ WellFormed(call.inv)) =>
        LET i == call.inv[1]
            w == ret.value[1].warnings
            tier == ExpTier(i.membership, ret.locals[1].subtotal)
        IN  /\ ret.kind = "return"
            /\ ("Unknown coupon" \in Range(w)) <=> UnknownCode(i.coupon)
            /\ Count(w, "Unknown coupon") <= 1
            /\ Trimmed(i.coupon) = <<>> => ret.locals[1].discount = tier
            /\ UnknownCode(i.coupon) => ret.locals[1].discount = tier

\* A lower-case vip20 is unknown: one warning, tier discount only.
C7_Witness ==
    /\ Priced
    /\ call.inv[1].coupon = Some(<<"v", "i", "p", "2", "0">>)
    /\ call.inv[1].membership = "gold"
    /\ ret.value[1].warnings = <<"Unknown coupon">>
    /\ ret.locals[1].discount > 0

-----------------------------------------------------------------------------
(* C8 *)

\* C8: for a valid invoice, "Consider membership upgrade" is among the
\* warnings exactly when the raw subtotal exceeds 10000 and membership is
\* neither gold nor platinum; it is then the last warning, after any
\* "Unknown coupon".
C8_UpgradeAdvice ==
    Priced =>
        LET i == call.inv[1]
            w == ret.value[1].warnings
            advised == "Consider membership upgrade" \in Range(w)
        IN  /\ advised <=>
                 /\ ExpSubtotal(i.items, Len(i.items)) > 10000 * Unit
                 /\ i.membership \notin {"gold", "platinum"}
            /\ advised =>
                 /\ w[Len(w)] = "Consider membership upgrade"
                 /\ Count(w, "Consider membership upgrade") = 1
                 /\ \A k \in 1..Len(w) :
                        w[k] = "Unknown coupon" => k < Len(w)

\* Both warnings, in the order of detection.
C8_Witness ==
    /\ Priced
    /\ call.inv[1].membership = "none"
    /\ ret.locals[1].subtotal = 10100 * Unit
    /\ ret.value[1].warnings = <<"Unknown coupon", "Consider membership upgrade">>

-----------------------------------------------------------------------------
(* C9 *)

\* C9: the total returned for an invoice that passes validation is never
\* negative.
C9_TotalNonNegative ==
    Priced => ret.value[1].total >= 0

\* An invoice of subtotal 0 has been priced.
C9_Witness ==
    /\ Priced
    /\ ret.locals[1].subtotal = 0
    /\ ret.value[1].total >= 0

-----------------------------------------------------------------------------
(* C10 *)

\* C10: for an invoice that passes validation, 0 <= discount <= subtotal, so
\* the taxable amount and the tax are not negative, the unclamped sum is not
\* negative, and the floor at 0 leaves it unchanged.
C10_FloorNeverActs ==
    Priced =>
        LET l == ret.locals[1]
            raw == l.subtotal + l.shipping + l.fragile_fee + l.tax - l.discount
        IN  /\ 0 <= l.discount
            /\ l.discount <= l.subtotal
            /\ l.subtotal - l.discount >= 0
            /\ l.tax >= 0
            /\ raw >= 0
            /\ ret.value[1].total = raw

\* The largest discount share: platinum with VIP20, a quarter of the subtotal.
C10_Witness ==
    /\ Priced
    /\ call.inv[1].membership = "platinum"
    /\ ret.locals[1].subtotal > 3000 * Unit
    /\ 4 * ret.locals[1].discount = ret.locals[1].subtotal

====
